---- MODULE Spec2Model ----
(***************************************************************************)
(* The site mirroring script (sync.js, latest revision): fetch the entry   *)
(* document, rewrite its asset attributes to local paths, download the     *)
(* queued assets, scan stylesheets for url() references, rewrite remote    *)
(* storage URLs inside script files, audit local references, write         *)
(* index.html.                                                             *)
(*                                                                         *)
(* Text is modelled as sequences of symbols: a symbol stands for a chunk   *)
(* of characters (an origin, a directory segment with its slash, a file    *)
(* name, a query string).  A file name symbol is a maximal run of          *)
(* [a-zA-Z0-9._-] characters.  A text (document, stylesheet, script) is a  *)
(* sequence of tokens, the strings that quotes, whitespace or url( )       *)
(* delimit in it.                                                          *)
(*                                                                         *)
(* Left out, as they touch no asset attribute and no file: the lang and    *)
(* alt fixes, the rel of external anchors, the two injected script blocks. *)
(***************************************************************************)
EXTENDS Integers, Sequences, FiniteSets, TLC

(* ------------------------------ bounds -------------------------------- *)

\* elements of the entry document
MaxElems == 2

\* distinct URLs whose fetch fails
MaxFail == 1

\* files the output directory holds before the first run
MaxStale == 1

(* ------------------------------ symbols ------------------------------- *)

BaseOrigin == "https://global-indesign.base44.app/"

SupaOrigin == "https://qtrypzzcjebvfcihiynt.supabase.co/"

StorageDir == "storage/v1/"

\* href of new URL(BASE_URL)
BASE_URL == <<BaseOrigin>>

Origins == {BaseOrigin, SupaOrigin}

Dirs == {"assets/", "img/", "other/", "fonts/", StorageDir}

JsNames == {"app.js", "vendor.js", "chunk.js", "badge.js"}

Names == JsNames \cup {"style.css", "logo.png", "manifest.json", "a.woff2",
                       "file.pdf", "index.html", "gone.png", "bg.png"}

Queries == {"?v=2", "?t=1", "?from=/assets/"}

\* path.basename of a path that ends with a directory segment
DirName(d) ==
    CASE d = "assets/" -> "assets"
      [] d = "img/" -> "img"
      [] d = "other/" -> "other"
      [] d = "fonts/" -> "fonts"
      [] d = StorageDir -> "v1"
      [] OTHER -> ""

Last(s) == s[Len(s)]

RECURSIVE FirstQuery(_, _)
\* index of the first '?' or '#' of s at or after i, Len(s)+1 when none
FirstQuery(s, i) ==
    IF i > Len(s) THEN i
    ELSE IF s[i] \in Queries THEN i
    ELSE FirstQuery(s, i + 1)

\* s.split('#')[0].split('?')[0]
StripQuery(s) == SubSeq(s, 1, FirstQuery(s, 1) - 1)

\* the query and fragment of s
QueryOf(s) == SubSeq(s, FirstQuery(s, 1), Len(s))

\* s.startsWith('data:')
StartsWithData(s) == Len(s) > 0 /\ s[1] = "data:"

\* s.startsWith('http')
StartsWithHttp(s) == Len(s) > 0 /\ (s[1] \in Origins \/ s[1] = "https://")

\* the result of a URL constructor that throws
Invalid == <<"TypeError: Invalid URL">>

RECURSIVE Normalize(_, _)
\* dot-segment removal of the path symbols rest, onto the stack acc
Normalize(acc, rest) ==
    IF rest = <<>> THEN acc
    ELSE IF Head(rest) = "./" THEN Normalize(acc, Tail(rest))
    ELSE IF Head(rest) = "../"
         THEN Normalize(IF Len(acc) > 1 THEN SubSeq(acc, 1, Len(acc) - 1) ELSE acc,
                        Tail(rest))
    ELSE Normalize(Append(acc, Head(rest)), Tail(rest))

\* the directory of an absolute URL: its path up to the last slash
DirOf(abs) ==
    LET p == StripQuery(abs)
    IN IF Len(p) > 1 /\ Last(p) \in Names THEN SubSeq(p, 1, Len(p) - 1) ELSE p

\* new URL(raw, base).href
URLResolve(raw, base) ==
    IF raw = <<>> THEN base
    ELSE IF raw[1] \in {"https://", "//"} THEN Invalid
    ELSE IF raw[1] = "data:" THEN raw
    ELSE IF raw[1] \in Origins
         THEN Normalize(<<raw[1]>>, StripQuery(Tail(raw))) \o QueryOf(raw)
    ELSE IF raw[1] = "/"
         THEN Normalize(<<base[1]>>, StripQuery(Tail(raw))) \o QueryOf(raw)
    ELSE Normalize(DirOf(base), StripQuery(raw)) \o QueryOf(raw)

\* new URL(abs).pathname
Pathname(abs) == StripQuery(Tail(abs))

\* path.basename(p)
Basename(p) ==
    IF p = <<>> THEN ""
    ELSE IF Last(p) \in Dirs THEN DirName(Last(p))
    ELSE Last(p)

\* abs.includes('/assets/'): the substring may lie in the path or in the query
IncludesAssets(abs) == \E i \in 1..Len(abs) : abs[i] \in {"assets/", "?from=/assets/"}

(* ------------------------------- paths -------------------------------- *)

OUT_DIR == "OUT_DIR"

ASSETS_DIR == "OUT_DIR/assets"

\* path.join(dir, filename)
PathJoin(dir, filename) == [dir |-> dir, name |-> filename]

IndexPath == PathJoin(OUT_DIR, "index.html")

(* --------------------------- the remote site --------------------------- *)

StyleUrl == <<BaseOrigin, "assets/", "style.css">>

AppJsUrl == <<BaseOrigin, "assets/", "app.js">>

VendorJsUrl == <<BaseOrigin, "assets/", "vendor.js">>

LogoUrl == <<BaseOrigin, "img/", "logo.png">>

\* remote storage URLs found as literals in the bundled scripts
PdfUrl == <<SupaOrigin, StorageDir, "file.pdf">>

PdfTokenUrl == <<SupaOrigin, StorageDir, "file.pdf", "?t=1">>

ChunkUrl == <<SupaOrigin, StorageDir, "chunk.js">>

\* the tokens of the text served at url (what url( ) encloses in a stylesheet,
\* what quotes or whitespace delimit in a script); binary files have none
RemoteText(url) ==
    CASE url = StyleUrl ->
            << <<"../", "img/", "logo.png">>,
               <<"data:", "font/woff2;base64">>,
               <<BaseOrigin, "img/", "logo.png">>,
               <<"../", "manifest.json">>,
               <<"../", "fonts/", "a.woff2", "?v=2">>,
               <<"bg.png">> >>
      [] url = AppJsUrl -> << PdfTokenUrl, PdfTokenUrl, ChunkUrl >>
      [] url = VendorJsUrl -> << PdfUrl, PdfTokenUrl >>
      [] url = ChunkUrl -> << PdfTokenUrl, PdfUrl >>
      [] OTHER -> << >>

\* response.data of a successful GET of url
Body(url) == [from |-> url, text |-> RemoteText(url)]

Elem(tag, rel, ref) == [tag |-> tag, rel |-> rel, ref |-> ref]

\* the elements an entry document is made of, in document order; ref is the
\* href, src or content attribute
Template ==
    << Elem("img", "", <<"/", "img/", "logo.png">>),
       Elem("link", "stylesheet", <<"/", "assets/", "style.css">>),
       Elem("script", "", <<"/", "assets/", "app.js">>),
       Elem("link", "manifest", <<"/", "manifest.json">>),
       Elem("img", "", <<"data:", "image/png;base64">>),
       Elem("meta", "og:image", <<BaseOrigin, "img/", "logo.png">>),
       Elem("script", "", <<BaseOrigin, "badge.js">>),
       Elem("img", "", <<"https://">>),
       Elem("link", "preload", <<"/", "assets/", "app.js">>),
       Elem("script", "", <<"assets/", "vendor.js">>),
       Elem("img", "", <<"/", "other/", "logo.png", "?v=2">>),
       Elem("link", "icon", <<"data:", "image/png;base64">>),
       Elem("link", "manifest", <<"/", "manifest.json", "?from=/assets/">>) >>

RECURSIVE Pick(_, _, _)
\* the subsequence of s at the indices of S, from index i on
Pick(s, S, i) ==
    IF i > Len(s) THEN <<>>
    ELSE (IF i \in S THEN <<s[i]>> ELSE <<>>) \o Pick(s, S, i + 1)

\* the entry documents: up to MaxElems elements of the template
Pages ==
    { Pick(Template, S, 1) :
        S \in { T \in SUBSET (1..Len(Template)) : Cardinality(T) <= MaxElems } }

\* what an earlier mirror may have left in the output directory
StaleIndex ==
    [from |-> <<"earlier run">>,
     text |-> << <<"./assets/", "logo.png">>, <<"./assets/", "gone.png">> >>]

StaleBytes == [from |-> <<"earlier run">>, text |-> << >>]

StalePaths ==
    {IndexPath, PathJoin(ASSETS_DIR, "file.pdf"), PathJoin(ASSETS_DIR, "logo.png")}

StaleContent(p) == IF p = IndexPath THEN StaleIndex ELSE StaleBytes

InitialDisks ==
    { [p \in S |-> StaleContent(p)] :
        S \in { T \in SUBSET StalePaths : Cardinality(T) <= MaxStale } }

(* ------------------------------- state -------------------------------- *)

VARIABLES
    pc,               \* position of main()
    run,              \* "first" or "second" run of the script
    page,             \* the entry document the remote site serves
    doc,              \* the cheerio tree $: the elements with their attributes
    todo,             \* indices of doc still to be visited by the .each walks
    assetsToDownload, \* the queue filled by addAsset
    idx,              \* position of the download loop in assetsToDownload
    cssUrls,          \* urls of the processCss call in progress
    cssIdx,           \* position of processCss in cssUrls
    jsFiles,          \* the .js files of ASSETS_DIR listed before the JS pass
    jsTodo,           \* files of jsFiles still to be scanned
    jsFile,           \* file being scanned
    matches,          \* remote URLs matched in the file being scanned
    mIdx,             \* position in matches
    jsContent,        \* text of the file being scanned
    modified,         \* whether jsContent was rewritten
    disk,             \* the output directory: path -> content
    startDisk,        \* the output directory as it was when this run started
    net,              \* the response of the remote site per URL requested so far
    inflight,         \* requests issued and not yet completed
    fetchLog,         \* downloadFile invocations of this run, in order, each with
                      \* whether its destination file existed at the call
    writeLog,         \* fs.writeFileSync calls of this run, in order
    missing,          \* asset paths the audit warned about
    exitCode          \* exit status of the process, "none" while it runs

walkVars == <<doc, todo, assetsToDownload>>

loopVars == <<idx, cssUrls, cssIdx>>

jsVars == <<jsFiles, jsTodo, jsFile, matches, mIdx, jsContent, modified>>

ioVars == <<disk, net, inflight, fetchLog, writeLog>>

vars == <<pc, run, page, walkVars, loopVars, jsVars, ioVars, startDisk,
          missing, exitCode>>

Terminal == {"done", "exit1", "crashed"}

\* fs.existsSync(path)
ExistsSync(path) == path \in DOMAIN disk

(* ------------------------------ addAsset ------------------------------ *)

\* what a function returns when it returns nothing
Undefined == <<"undefined">>

validRels == {"stylesheet", "icon", "manifest", "apple-touch-icon", "shortcut icon"}

\* addAsset without its manifest.json exception
LocalDir_AlwaysAssets(absoluteUrl, filename) == ASSETS_DIR

\* localDir of addAsset for an absolute URL and its file name
LocalDir(absoluteUrl, filename) ==
    IF ~IncludesAssets(absoluteUrl) /\ filename = "manifest.json"
    THEN OUT_DIR ELSE ASSETS_DIR

\* newPath of addAsset
NewPath(localDir, filename) ==
    IF localDir = OUT_DIR THEN <<"./", filename>> ELSE <<"./assets/", filename>>

\* addAsset without its data: guard
addAsset_NoDataCheck(url, isCss) ==
    LET absoluteUrl == URLResolve(url, BASE_URL)
        filename == Basename(Pathname(absoluteUrl))
        localDir == LocalDir(absoluteUrl, filename)
    IN IF absoluteUrl = Invalid
       THEN [queued |-> <<>>, ret |-> url]
       ELSE [queued |-> << [url |-> absoluteUrl,
                            filepath |-> PathJoin(localDir, filename),
                            isCss |-> isCss,
                            originalUrl |-> url] >>,
             ret |-> NewPath(localDir, filename)]

\* addAsset without its try/catch around the URL constructor's result
addAsset_NoCatch(url, isCss) ==
    IF url = <<>> \/ StartsWithData(url)
    THEN [queued |-> <<>>, ret |-> Undefined]
    ELSE LET absoluteUrl == URLResolve(url, BASE_URL)
             filename == Basename(Pathname(absoluteUrl))
             localDir == LocalDir(absoluteUrl, filename)
         IN [queued |-> << [url |-> absoluteUrl,
                            filepath |-> PathJoin(localDir, filename),
                            isCss |-> isCss,
                            originalUrl |-> url] >>,
             ret |-> NewPath(localDir, filename)]

\* addAsset(url, isCss): the entries pushed on assetsToDownload and the value
\* returned
addAsset(url, isCss) ==
    IF url = <<>> \/ StartsWithData(url)
    THEN [queued |-> <<>>, ret |-> Undefined]
    ELSE LET absoluteUrl == URLResolve(url, BASE_URL)
             filename == Basename(Pathname(absoluteUrl))
             localDir == LocalDir(absoluteUrl, filename)
         IN IF absoluteUrl = Invalid
            THEN [queued |-> <<>>, ret |-> url]
            ELSE [queued |-> << [url |-> absoluteUrl,
                                 filepath |-> PathJoin(localDir, filename),
                                 isCss |-> isCss,
                                 originalUrl |-> url] >>,
                  ret |-> NewPath(localDir, filename)]

\* $(el).attr(name, value): a setter unless value is undefined
AttrSet(el, value) == IF value = Undefined THEN el ELSE [el EXCEPT !.ref = value]

\* $('script[src*="badge.js"]').remove()
RemoveBadge(d) ==
    SelectSeq(d, LAMBDA e : ~(e.tag = "script"
                              /\ \E i \in 1..Len(e.ref) : e.ref[i] = "badge.js"))

\* whether element e is selected by the walk of the given kind
Selected(e, kind) ==
    CASE kind = "link" -> e.tag = "link"
      [] kind = "script" -> e.tag = "script"
      [] kind = "img" -> e.tag = "img"
      [] kind = "meta" -> e.tag = "meta" /\ e.rel \in {"og:image", "twitter:image"}

RECURSIVE IndicesOf(_, _, _)
\* indices of the elements of d selected by kind, in document order, from i on
IndicesOf(d, kind, i) ==
    IF i > Len(d) THEN <<>>
    ELSE (IF Selected(d[i], kind) THEN <<i>> ELSE <<>>) \o IndicesOf(d, kind, i + 1)

\* one walk over all elements in document order
WalkOrder_DocumentOrder(d) == [i \in 1..Len(d) |-> i]

\* the order in which the four .each walks visit the elements
WalkOrder(d) ==
    IndicesOf(d, "link", 1) \o IndicesOf(d, "script", 1)
        \o IndicesOf(d, "img", 1) \o IndicesOf(d, "meta", 1)

\* whether the callback of the walk calls addAsset for element e
CallsAddAsset(e) ==
    e.ref # <<>> /\ (e.tag = "link" => e.rel \in validRels)

(* ----------------------------- processCss ----------------------------- *)

\* processCss without its data:/http filter
CssCandidates_NoFilter(cssText) == cssText

\* urls of processCss: the url( ) values that are neither data: nor http
CssCandidates(cssText) ==
    SelectSeq(cssText, LAMBDA u : ~StartsWithData(u) /\ ~StartsWithHttp(u))

\* processCss naming the file after relUrl as written, query string included
CssFilepath_KeepQuery(relUrl) == PathJoin(ASSETS_DIR, Basename(relUrl))

\* filepath of processCss for relUrl
CssFilepath(relUrl) == PathJoin(ASSETS_DIR, Basename(StripQuery(relUrl)))

(* ------------------------------ JS pass -------------------------------- *)

\* whether filename f ends with .js
EndsWithJs(f) == f \in JsNames

RECURSIVE MatchAt(_, _)
\* the match of remoteUrlRegex in token tok starting at or after i, <<>> if none
MatchAt(tok, i) ==
    IF i + 2 > Len(tok) THEN <<>>
    ELSE IF tok[i] = SupaOrigin /\ tok[i + 1] = StorageDir
         THEN SubSeq(tok, i, Len(tok))
    ELSE MatchAt(tok, i + 1)

RECURSIVE JsMatches(_)
\* jsContent.match(remoteUrlRegex) || []
JsMatches(text) ==
    IF text = <<>> THEN <<>>
    ELSE (IF MatchAt(Head(text), 1) = <<>> THEN <<>> ELSE <<MatchAt(Head(text), 1)>>)
         \o JsMatches(Tail(text))

\* whether pat occurs in tok at index i
OccursAt(tok, pat, i) ==
    i + Len(pat) - 1 <= Len(tok) /\ SubSeq(tok, i, i + Len(pat) - 1) = pat

RECURSIVE ReplaceIn(_, _, _, _)
\* tok.split(pat).join(rep), from index i on
ReplaceIn(tok, pat, rep, i) ==
    IF i > Len(tok) THEN <<>>
    ELSE IF OccursAt(tok, pat, i) THEN rep \o ReplaceIn(tok, pat, rep, i + Len(pat))
    ELSE <<tok[i]>> \o ReplaceIn(tok, pat, rep, i + 1)

\* jsContent.split(remoteUrl).join(localPath)
SplitJoin(text, remoteUrl, localPath) ==
    [k \in 1..Len(text) |-> ReplaceIn(text[k], remoteUrl, localPath, 1)]

\* filename of the JS pass for remoteUrl
JsFilename(remoteUrl) == Basename(StripQuery(Pathname(URLResolve(remoteUrl, <<>>))))

\* the JS pass without its existsSync guard
JsNeedsFetch_Always(filepath) == TRUE

\* whether the JS pass calls downloadFile for filepath
JsNeedsFetch(filepath) == ~ExistsSync(filepath)

(* ------------------------------- audit --------------------------------- *)

\* the file names of the matches of localAssetRegex in a text
LocalAssetsFound(text) ==
    UNION { { text[k][i + 1] :
                i \in { j \in 1..(Len(text[k]) - 1) :
                          text[k][j] = "./assets/" /\ text[k][j + 1] \in Names } } :
            k \in 1..Len(text) }

\* $.html(): the attribute values of the tree, as tokens of the written text
Serialize(d) == [k \in 1..Len(d) |-> d[k].ref]

(* ------------------------------ transport ------------------------------ *)

NoFile == [p \in {} |-> StaleBytes]

NoResponse == [u \in {} |-> "ok"]

FailCount == Cardinality({u \in DOMAIN net : net[u] = "fail"})

\* the responses the remote site may give to a GET of url: the one it gave
\* before, else success or (while fewer than MaxFail URLs fail) failure
Outcomes(url) ==
    IF url \in DOMAIN net THEN {net[url]}
    ELSE {"ok"} \cup (IF FailCount < MaxFail THEN {"fail"} ELSE {})

\* downloadFile(url, filepath) up to its await: the GET is issued
CallDownloadFile(url, filepath, via) ==
    /\ inflight' = inflight \cup {url}
    /\ fetchLog' = Append(fetchLog, [url |-> url, filepath |-> filepath, via |-> via,
                                     existed |-> ExistsSync(filepath)])
    /\ UNCHANGED <<disk, net, writeLog>>

\* a downloadFile that opens its destination for writing whatever the GET
\* answers, leaving an empty file when it fails
ReturnDownloadFile_WriteOnFail(url, filepath, outcome) ==
    /\ url \in inflight
    /\ outcome \in Outcomes(url)
    /\ net' = (url :> outcome) @@ net
    /\ inflight' = inflight \ {url}
    /\ disk' = (filepath :> (IF outcome = "ok" THEN Body(url)
                                               ELSE [from |-> url, text |-> <<>>])) @@ disk
    /\ writeLog' = Append(writeLog, filepath)
    /\ UNCHANGED fetchLog

\* downloadFile(url, filepath) from its await on: the response is written to
\* filepath, or the error is caught and null returned
ReturnDownloadFile(url, filepath, outcome) ==
    /\ url \in inflight
    /\ outcome \in Outcomes(url)
    /\ net' = (url :> outcome) @@ net
    /\ inflight' = inflight \ {url}
    /\ IF outcome = "ok"
       THEN /\ disk' = (filepath :> Body(url)) @@ disk
            /\ writeLog' = Append(writeLog, filepath)
       ELSE UNCHANGED <<disk, writeLog>>
    /\ UNCHANGED fetchLog

(* ------------------------------- main ---------------------------------- *)

Init ==
    /\ pc = "start"
    /\ run = "first"
    /\ page \in Pages
    /\ doc = <<>>
    /\ todo = <<>>
    /\ assetsToDownload = <<>>
    /\ idx = 1
    /\ cssUrls = <<>>
    /\ cssIdx = 1
    /\ jsFiles = {}
    /\ jsTodo = {}
    /\ jsFile = ""
    /\ matches = <<>>
    /\ mIdx = 1
    /\ jsContent = <<>>
    /\ modified = FALSE
    /\ disk \in InitialDisks
    /\ startDisk = disk
    /\ net = NoResponse
    /\ inflight = {}
    /\ fetchLog = <<>>
    /\ writeLog = <<>>
    /\ missing = {}
    /\ exitCode = "none"

\* main() up to await axios.get(BASE_URL)
FetchRoot ==
    /\ pc = "start"
    /\ pc' = "awaitRoot"
    /\ inflight' = inflight \cup {BASE_URL}
    /\ UNCHANGED <<run, page, walkVars, loopVars, jsVars, disk, net, fetchLog,
                   writeLog, startDisk, missing, exitCode>>

\* the catch of the entry fetch without process.exit(1): main goes on with
\* an empty document
FetchRootFailed_NoExit ==
    /\ pc = "awaitRoot"
    /\ "fail" \in Outcomes(BASE_URL)
    /\ net' = (BASE_URL :> "fail") @@ net
    /\ inflight' = inflight \ {BASE_URL}
    /\ doc' = <<>>
    /\ todo' = <<>>
    /\ pc' = "download"
    /\ UNCHANGED <<run, page, assetsToDownload, loopVars, jsVars, disk, fetchLog,
                   writeLog, startDisk, missing, exitCode>>

\* the catch of the entry fetch: process.exit(1)
FetchRootFailed ==
    /\ pc = "awaitRoot"
    /\ "fail" \in Outcomes(BASE_URL)
    /\ net' = (BASE_URL :> "fail") @@ net
    /\ inflight' = inflight \ {BASE_URL}
    /\ pc' = "exit1"
    /\ exitCode' = "1"
    /\ UNCHANGED <<run, page, walkVars, loopVars, jsVars, disk, fetchLog, writeLog,
                   startDisk, missing>>

\* walks that hand over to the download loop after their first element
AfterWalk_Interrupted(t) == "download"

\* position of main() once the elements of t are left to walk
AfterWalk(t) == IF t = <<>> THEN "download" ELSE "walk"

\* the entry document arrived: cheerio.load, badge removal, the walks start
FetchRootOk ==
    /\ pc = "awaitRoot"
    /\ "ok" \in Outcomes(BASE_URL)
    /\ net' = (BASE_URL :> "ok") @@ net
    /\ inflight' = inflight \ {BASE_URL}
    /\ doc' = RemoveBadge(page)
    /\ todo' = WalkOrder(doc')
    /\ pc' = AfterWalk(todo')
    /\ UNCHANGED <<run, page, assetsToDownload, loopVars, jsVars, disk, fetchLog,
                   writeLog, startDisk, missing, exitCode>>

\* one callback of a .each walk: addAsset and the rewrite of the attribute
WalkElement ==
    /\ pc = "walk"
    /\ LET k == Head(todo)
           e == doc[k]
           r == addAsset(e.ref, e.tag = "link" /\ e.rel = "stylesheet")
       IN IF CallsAddAsset(e)
          THEN /\ assetsToDownload' = assetsToDownload \o r.queued
               /\ doc' = [doc EXCEPT ![k] = AttrSet(e, r.ret)]
          ELSE UNCHANGED <<assetsToDownload, doc>>
    /\ todo' = Tail(todo)
    /\ pc' = AfterWalk(todo')
    /\ UNCHANGED <<run, page, loopVars, jsVars, ioVars, startDisk, missing, exitCode>>

\* download loop: downloadFile(asset.url, asset.filepath) is called
DownloadAsset ==
    /\ pc = "download"
    /\ idx <= Len(assetsToDownload)
    /\ CallDownloadFile(assetsToDownload[idx].url, assetsToDownload[idx].filepath, "html")
    /\ pc' = "awaitAsset"
    /\ UNCHANGED <<run, page, walkVars, loopVars, jsVars, startDisk, missing, exitCode>>

\* a download loop that a failed fetch ends
AssetReturned_StopOnFail ==
    /\ pc = "awaitAsset"
    /\ \E outcome \in {"ok", "fail"} :
        /\ ReturnDownloadFile(assetsToDownload[idx].url,
                              assetsToDownload[idx].filepath, outcome)
        /\ IF outcome = "ok" /\ assetsToDownload[idx].isCss
           THEN /\ cssUrls' = CssCandidates(Body(assetsToDownload[idx].url).text)
                /\ cssIdx' = 1
                /\ pc' = "css"
                /\ idx' = idx
           ELSE /\ idx' = IF outcome = "fail" THEN Len(assetsToDownload) + 1 ELSE idx + 1
                /\ pc' = "download"
                /\ UNCHANGED <<cssUrls, cssIdx>>
    /\ UNCHANGED <<run, page, walkVars, jsVars, startDisk, missing, exitCode>>

\* a download loop that puts the original reference back when the fetch fails
AssetReturned_RevertOnFail ==
    /\ pc = "awaitAsset"
    /\ \E outcome \in {"ok", "fail"} :
        /\ ReturnDownloadFile(assetsToDownload[idx].url,
                              assetsToDownload[idx].filepath, outcome)
        /\ IF outcome = "ok" /\ assetsToDownload[idx].isCss
           THEN /\ cssUrls' = CssCandidates(Body(assetsToDownload[idx].url).text)
                /\ cssIdx' = 1
                /\ pc' = "css"
                /\ idx' = idx
           ELSE /\ idx' = idx + 1
                /\ pc' = "download"
                /\ UNCHANGED <<cssUrls, cssIdx>>
        /\ IF outcome = "fail"
           THEN doc' = [k \in DOMAIN doc |->
                          IF doc[k].ref = NewPath(assetsToDownload[idx].filepath.dir,
                                                  assetsToDownload[idx].filepath.name)
                          THEN [doc[k] EXCEPT !.ref = assetsToDownload[idx].originalUrl]
                          ELSE doc[k]]
           ELSE doc' = doc
    /\ UNCHANGED <<run, page, todo, assetsToDownload, jsVars, startDisk, missing,
                   exitCode>>

\* download loop: downloadFile returned; a fetched stylesheet is scanned
AssetReturned ==
    /\ pc = "awaitAsset"
    /\ \E outcome \in {"ok", "fail"} :
        /\ ReturnDownloadFile(assetsToDownload[idx].url,
                              assetsToDownload[idx].filepath, outcome)
        /\ IF outcome = "ok" /\ assetsToDownload[idx].isCss
           THEN /\ cssUrls' = CssCandidates(Body(assetsToDownload[idx].url).text)
                /\ cssIdx' = 1
                /\ pc' = "css"
                /\ idx' = idx
           ELSE /\ idx' = idx + 1
                /\ pc' = "download"
                /\ UNCHANGED <<cssUrls, cssIdx>>
    /\ UNCHANGED <<run, page, walkVars, jsVars, startDisk, missing, exitCode>>

\* an exception nobody catches rejects main(): the process ends, with a
\* failure status or (older runtimes) with a warning only
Crash ==
    /\ pc' = "crashed"
    /\ exitCode' \in {"1", "0"}

\* processCss: the next url is resolved and downloadFile called
CssAsset ==
    /\ pc = "css"
    /\ cssIdx <= Len(cssUrls)
    /\ LET absoluteUrl == URLResolve(cssUrls[cssIdx], assetsToDownload[idx].url)
       IN IF absoluteUrl = Invalid
          THEN Crash /\ UNCHANGED ioVars
          ELSE /\ CallDownloadFile(absoluteUrl, CssFilepath(cssUrls[cssIdx]), "css")
               /\ pc' = "awaitCss"
               /\ UNCHANGED exitCode
    /\ UNCHANGED <<run, page, walkVars, loopVars, jsVars, startDisk, missing>>

\* processCss: downloadFile returned
CssAssetReturned ==
    /\ pc = "awaitCss"
    /\ \E outcome \in {"ok", "fail"} :
        ReturnDownloadFile(URLResolve(cssUrls[cssIdx], assetsToDownload[idx].url),
                           CssFilepath(cssUrls[cssIdx]), outcome)
    /\ cssIdx' = cssIdx + 1
    /\ pc' = "css"
    /\ UNCHANGED <<run, page, walkVars, idx, cssUrls, jsVars, startDisk, missing,
                   exitCode>>

\* processCss returns to the download loop
CssReturn ==
    /\ pc = "css"
    /\ cssIdx > Len(cssUrls)
    /\ idx' = idx + 1
    /\ pc' = "download"
    /\ UNCHANGED <<run, page, walkVars, cssUrls, cssIdx, jsVars, ioVars, startDisk,
                   missing, exitCode>>

\* the download loop is over: fs.readdirSync(ASSETS_DIR).filter(.js)
ListJsFiles ==
    /\ pc = "download"
    /\ idx > Len(assetsToDownload)
    /\ jsFiles' = { p.name : p \in { q \in DOMAIN disk :
                                       q.dir = ASSETS_DIR /\ EndsWithJs(q.name) } }
    /\ jsTodo' = jsFiles'
    /\ pc' = "jsLoop"
    /\ UNCHANGED <<run, page, walkVars, loopVars, jsFile, matches, mIdx, jsContent,
                   modified, ioVars, startDisk, missing, exitCode>>

\* JS pass: the next file (in the order readdirSync listed them, which the
\* file system decides) is read and matched
OpenJsFile ==
    /\ pc = "jsLoop"
    /\ \E f \in jsTodo :
        /\ jsFile' = f
        /\ jsContent' = disk[PathJoin(ASSETS_DIR, f)].text
        /\ matches' = JsMatches(jsContent')
    /\ mIdx' = 1
    /\ modified' = FALSE
    /\ pc' = "jsFile"
    /\ UNCHANGED <<run, page, walkVars, loopVars, jsFiles, jsTodo, ioVars, startDisk,
                   missing, exitCode>>

\* localPath of the JS pass for remoteUrl
JsLocalPath(remoteUrl) == <<"./assets/", JsFilename(remoteUrl)>>

\* JS pass, one match: the file is fetched unless it exists; a match whose
\* file exists is substituted at once
JsMatch ==
    /\ pc = "jsFile"
    /\ mIdx <= Len(matches)
    /\ LET remoteUrl == matches[mIdx]
           filepath == PathJoin(ASSETS_DIR, JsFilename(remoteUrl))
       IN IF JsNeedsFetch(filepath)
          THEN /\ CallDownloadFile(URLResolve(remoteUrl, <<>>), filepath, "js")
               /\ pc' = "awaitJs"
               /\ UNCHANGED <<jsContent, modified, mIdx>>
          ELSE /\ jsContent' = SplitJoin(jsContent, remoteUrl, JsLocalPath(remoteUrl))
               /\ modified' = TRUE
               /\ mIdx' = mIdx + 1
               /\ pc' = "jsFile"
               /\ UNCHANGED ioVars
    /\ UNCHANGED <<run, page, walkVars, loopVars, jsFiles, jsTodo, jsFile, matches,
                   startDisk, missing, exitCode>>

\* JS pass: downloadFile returned, the match is substituted
JsAssetReturned ==
    /\ pc = "awaitJs"
    /\ LET remoteUrl == matches[mIdx]
       IN /\ \E outcome \in {"ok", "fail"} :
                ReturnDownloadFile(URLResolve(remoteUrl, <<>>),
                                   PathJoin(ASSETS_DIR, JsFilename(remoteUrl)), outcome)
          /\ jsContent' = SplitJoin(jsContent, remoteUrl, JsLocalPath(remoteUrl))
    /\ modified' = TRUE
    /\ mIdx' = mIdx + 1
    /\ pc' = "jsFile"
    /\ UNCHANGED <<run, page, walkVars, loopVars, jsFiles, jsTodo, jsFile, matches,
                   startDisk, missing, exitCode>>

\* JS pass: the matches of the file are done, a modified file is written back
CloseJsFile ==
    /\ pc = "jsFile"
    /\ mIdx > Len(matches)
    /\ LET jsPath == PathJoin(ASSETS_DIR, jsFile)
       IN IF modified
          THEN /\ disk' = [disk EXCEPT ![jsPath].text = jsContent]
               /\ writeLog' = Append(writeLog, jsPath)
          ELSE UNCHANGED <<disk, writeLog>>
    /\ jsTodo' = jsTodo \ {jsFile}
    /\ pc' = "jsLoop"
    /\ UNCHANGED <<run, page, walkVars, loopVars, jsFiles, jsFile, matches, mIdx,
                   jsContent, modified, net, inflight, fetchLog, startDisk, missing,
                   exitCode>>

\* allContent of the audit: index.html as it is on disk, and the .js files
AuditTexts ==
    {disk[IndexPath].text} \cup { disk[PathJoin(ASSETS_DIR, f)].text : f \in jsFiles }

\* uniqueLocalAssets of the audit, as file names
UniqueLocalAssets == UNION { LocalAssetsFound(t) : t \in AuditTexts }

\* the assetPaths the audit warns about
AuditMissing ==
    { <<"./assets/", filename>> :
        filename \in { f \in UniqueLocalAssets :
                         ~ExistsSync(PathJoin(ASSETS_DIR, f)) /\ f # "assets" } }

\* final audit; reading an index.html that does not exist throws
Audit ==
    /\ pc = "jsLoop"
    /\ jsTodo = {}
    /\ IF ExistsSync(IndexPath)
       THEN /\ missing' = AuditMissing
            /\ pc' = "write"
            /\ UNCHANGED exitCode
       ELSE Crash /\ UNCHANGED missing
    /\ UNCHANGED <<run, page, walkVars, loopVars, jsVars, ioVars, startDisk>>

\* fs.writeFileSync(index.html, $.html()), and main() returns
WriteIndex ==
    /\ pc = "write"
    /\ disk' = (IndexPath :> [from |-> BASE_URL, text |-> Serialize(doc)]) @@ disk
    /\ writeLog' = Append(writeLog, IndexPath)
    /\ pc' = "done"
    /\ exitCode' = "0"
    /\ UNCHANGED <<run, page, walkVars, loopVars, jsVars, net, inflight, fetchLog,
                   startDisk, missing>>

\* the script is run a second time, on the output directory the first run
\* left, against the same remote site
RunAgain ==
    /\ pc \in Terminal
    /\ run = "first"
    /\ run' = "second"
    /\ pc' = "start"
    /\ startDisk' = disk
    /\ doc' = <<>>
    /\ todo' = <<>>
    /\ assetsToDownload' = <<>>
    /\ idx' = 1
    /\ cssUrls' = <<>>
    /\ cssIdx' = 1
    /\ jsFiles' = {}
    /\ jsTodo' = {}
    /\ jsFile' = ""
    /\ matches' = <<>>
    /\ mIdx' = 1
    /\ jsContent' = <<>>
    /\ modified' = FALSE
    /\ fetchLog' = <<>>
    /\ writeLog' = <<>>
    /\ missing' = {}
    /\ exitCode' = "none"
    /\ UNCHANGED <<page, disk, net, inflight>>

Next ==
    \/ FetchRoot
    \/ FetchRootFailed
    \/ FetchRootOk
    \/ WalkElement
    \/ DownloadAsset
    \/ AssetReturned
    \/ CssAsset
    \/ CssAssetReturned
    \/ CssReturn
    \/ ListJsFiles
    \/ OpenJsFile
    \/ JsMatch
    \/ JsAssetReturned
    \/ CloseJsFile
    \/ Audit
    \/ WriteIndex
    \/ RunAgain

Spec == Init /\ [][Next]_vars

(* ------------------------------ properties ----------------------------- *)

EntryFetched == BASE_URL \in DOMAIN net /\ net[BASE_URL] = "ok"

EntryFailed == BASE_URL \in DOMAIN net /\ net[BASE_URL] = "fail"

\* the number of downloadFile invocations of this run for url
FetchCount(url) == Cardinality({i \in 1..Len(fetchLog) : fetchLog[i].url = url})

\* C1: in one run no two downloadFile invocations target the same absolute
\* URL, however often the URL is referenced.
C1_AtMostOnceFetch ==
    \A i, j \in 1..Len(fetchLog) :
        fetchLog[i].url = fetchLog[j].url => i = j

\* C2: a run whose entry document was fetched ends with index.html written
\* and without a failure exit, whatever the asset fetches did and whatever the
\* output directory held.
C2_EntryOkCompletes ==
    (pc \in Terminal /\ EntryFetched) =>
        /\ pc = "done"
        /\ exitCode = "0"
        /\ \E i \in 1..Len(writeLog) : writeLog[i] = IndexPath

\* the local path put in the document for a queued asset
RewrittenRef(asset) == NewPath(asset.filepath.dir, asset.filepath.name)

\* C3: when the run has written index.html, every queued HTML reference whose
\* fetch failed has its local path in the written document and among the
\* paths the audit reported missing.
C3_FailOpenAudited ==
    pc = "done" =>
        \A k \in 1..Len(assetsToDownload) :
            net[assetsToDownload[k].url] = "fail" =>
                /\ \E t \in 1..Len(disk[IndexPath].text) :
                     disk[IndexPath].text[t] = RewrittenRef(assetsToDownload[k])
                /\ RewrittenRef(assetsToDownload[k]) \in missing

\* C4: whichever scanner discovers it (HTML attribute, CSS url(), JS
\* literal), one absolute URL is always given the same local file.
C4_LocalPathDeterminism ==
    \A i, j \in 1..Len(fetchLog) :
        fetchLog[i].url = fetchLog[j].url => fetchLog[i].filepath = fetchLog[j].filepath

\* C5: once the fetch of the entry document has failed the process has exited
\* with status 1, having issued no asset fetch and written no file: the
\* output directory is as the run found it.
C5_EntryFailureAborts ==
    (EntryFailed /\ pc \notin {"start", "awaitRoot"}) =>
        /\ pc = "exit1"
        /\ exitCode = "1"
        /\ fetchLog = <<>>
        /\ inflight = {}
        /\ writeLog = <<>>
        /\ disk = startDisk

C5_Witness == pc = "exit1" /\ EntryFailed /\ run = "first"

\* C6: the walk of an element whose attribute starts with data: leaves
\* assetsToDownload and the attribute as they are; no fetch is ever issued
\* for a data: URL; and the written index.html holds the original value.
C6_DataUrlPassthrough ==
    /\ [][(pc = "walk" /\ StartsWithData(doc[Head(todo)].ref)) =>
              (assetsToDownload' = assetsToDownload /\ doc' = doc)]_vars
    /\ [](\A i \in 1..Len(fetchLog) : ~StartsWithData(fetchLog[i].url))
    /\ [](pc = "done" =>
            \A k \in 1..Len(RemoveBadge(page)) :
                StartsWithData(RemoveBadge(page)[k].ref) =>
                    disk[IndexPath].text[k] = RemoveBadge(page)[k].ref)

C6_Witness ==
    /\ pc = "done"
    /\ \E k \in 1..Len(doc) : StartsWithData(doc[k].ref)
    /\ \E k \in 1..Len(doc) : ~StartsWithData(doc[k].ref) /\ doc[k].ref # page[k].ref

\* C7: when the script has run to completion twice against the unchanged
\* remote site, the second run has left every file of the output directory
\* as the first run left it.
C7_Idempotent ==
    (run = "second" /\ pc = "done") => disk = startDisk

\* whether remoteUrl occurs in some token of a text
OccursIn(text, remoteUrl) ==
    \E k \in 1..Len(text) : \E i \in 1..Len(text[k]) : OccursAt(text[k], remoteUrl, i)

\* C8: a remote URL that occurs twice or more in a scanned script is fetched
\* at most once during the JS pass, and when the matches of the script are
\* done it has been fetched exactly once and no occurrence of it is left.
C8_JsRepeatedUrl ==
    (pc \in {"jsFile", "awaitJs"}) =>
        \A a, b \in 1..Len(matches) :
            (a < b /\ matches[a] = matches[b]) =>
                /\ FetchCount(URLResolve(matches[a], <<>>)) <= 1
                /\ (pc = "jsFile" /\ mIdx > Len(matches)) =>
                      /\ FetchCount(URLResolve(matches[a], <<>>)) = 1
                      /\ ~OccursIn(jsContent, matches[a])

\* the local references (./assets/<name> and ./<name>) of a text, as paths
LocalRefs(text) ==
    { PathJoin(IF text[k][1] = "./" THEN OUT_DIR ELSE ASSETS_DIR, text[k][2]) :
        k \in { t \in 1..Len(text) :
                  Len(text[t]) >= 2 /\ text[t][1] \in {"./", "./assets/"}
                      /\ text[t][2] \in Names } }

\* C9: the audit reports every local path that the document of this run or a
\* script file references and that has no file on disk.
C9_AuditComplete ==
    (pc \in {"write", "done"}) =>
        \A p \in LocalRefs(Serialize(doc))
                   \cup UNION { LocalRefs(disk[PathJoin(ASSETS_DIR, f)].text) : f \in jsFiles } :
            ~ExistsSync(p) =>
                NewPath(p.dir, p.name) \in missing

PathHasAssets(abs) == \E i \in 1..Len(Pathname(abs)) : Pathname(abs)[i] = "assets/"

\* the file a rewritten reference designates, relative to the mirror root
RefTarget(ref) == PathJoin(IF ref[1] = "./" THEN OUT_DIR ELSE ASSETS_DIR, ref[2])

\* whether the queued asset is stored, and its element rewritten, by the
\* rule whose root case is rootCase
FollowsRule(asset, rootCase) ==
    LET name == Basename(Pathname(asset.url))
        ref == IF rootCase THEN <<"./", name>> ELSE <<"./assets/", name>>
    IN /\ asset.filepath = PathJoin(IF rootCase THEN OUT_DIR ELSE ASSETS_DIR, name)
       /\ \E k \in 1..Len(doc) :
            /\ RemoveBadge(page)[k].ref = asset.originalUrl
            /\ doc[k].ref = ref
            /\ RefTarget(doc[k].ref) = asset.filepath

C12_QueryHandling ==
    \A i \in 1..Len(fetchLog) :
        LET e == fetchLog[i]
        IN /\ e.via = "html" =>
                \E k \in 1..Len(assetsToDownload) :
                    LET a == assetsToDownload[k]
                    IN /\ e.url = a.url
                       /\ e.filepath = a.filepath
                       /\ e.url = URLResolve(a.originalUrl, BASE_URL)
                       /\ QueryOf(e.url) = QueryOf(a.originalUrl)
                       /\ e.filepath.name = Basename(Pathname(e.url))
           /\ e.via = "css" =>
                /\ \E k \in 1..Len(assetsToDownload) :
                     /\ assetsToDownload[k].isCss
                     /\ \E j \in 1..Len(RemoteText(assetsToDownload[k].url)) :
                          LET t == RemoteText(assetsToDownload[k].url)[j]
                          IN /\ e.url = URLResolve(t, assetsToDownload[k].url)
                             /\ QueryOf(e.url) = QueryOf(t)
                /\ e.filepath = PathJoin(ASSETS_DIR, Basename(Pathname(e.url)))
                /\ Last(e.url) = "bg.png" => e.url = <<BaseOrigin, "assets/", "bg.png">>
                /\ e.filepath.name = "a.woff2" =>
                     e.url = <<BaseOrigin, "fonts/", "a.woff2", "?v=2">>

C12_Witness ==
    /\ \E i \in 1..Len(fetchLog) :
         /\ fetchLog[i].via = "css"
         /\ fetchLog[i].url = <<BaseOrigin, "fonts/", "a.woff2", "?v=2">>
         /\ fetchLog[i].filepath = PathJoin(ASSETS_DIR, "a.woff2")
    /\ \E i \in 1..Len(fetchLog) :
         /\ fetchLog[i].via = "css"
         /\ fetchLog[i].url = <<BaseOrigin, "assets/", "bg.png">>
    /\ \E i \in 1..Len(fetchLog) :
         /\ fetchLog[i].via = "html"
         /\ QueryOf(fetchLog[i].url) = <<"?v=2">>
         /\ fetchLog[i].filepath = PathJoin(ASSETS_DIR, "logo.png")

\* the walk is at an element whose reference addAsset is called with and
\* whose resolution against BASE_URL throws
AtInvalidReference ==
    /\ pc = "walk"
    /\ CallsAddAsset(doc[Head(todo)])
    /\ ~StartsWithData(doc[Head(todo)].ref)
    /\ URLResolve(doc[Head(todo)].ref, BASE_URL) = Invalid

\* C13: when the resolution of a reference throws inside addAsset, nothing
\* is queued, the attribute keeps the original reference, and the walk goes
\* on to the next element without ending the run.
C13_InvalidReferenceFailOpen ==
    [][AtInvalidReference =>
          /\ assetsToDownload' = assetsToDownload
          /\ doc' = doc
          /\ doc'[Head(todo)].ref = RemoveBadge(page)[Head(todo)].ref
          /\ todo' = Tail(todo)
          /\ pc' = (IF todo' = <<>> THEN "download" ELSE "walk")
          /\ exitCode' = exitCode]_vars

C13_Witness ==
    /\ pc = "download"
    /\ idx = 1
    /\ \E k \in 1..Len(doc) :
         /\ doc[k].tag = "img"
         /\ doc[k].ref = <<"https://">>
    /\ \E k \in 1..Len(assetsToDownload) :
         assetsToDownload[k].originalUrl = <<BaseOrigin, "img/", "logo.png">>

\* whether a is a proper prefix of b
ProperPrefix(a, b) == Len(a) < Len(b) /\ SubSeq(b, 1, Len(a)) = a

\* C14: when a script holds two matched remote URLs of which one is a proper
\* prefix of the other, then once its matches are done every token that was
\* a matched URL is that URL's own local path ./assets/<its basename>,
\* whichever of the two was matched first.
C14_NoDoubleRewrite ==
    (/\ pc = "jsFile"
     /\ mIdx > Len(matches)
     /\ \E a, b \in 1..Len(matches) : ProperPrefix(matches[a], matches[b])) =>
        \A k \in 1..Len(jsContent) :
            LET original == disk[PathJoin(ASSETS_DIR, jsFile)].text[k]
            IN MatchAt(original, 1) = original /\ original # <<>> =>
                  jsContent[k] = JsLocalPath(original)

\* whether addAsset queues an asset for element e of the fetched document
IsAssetElement(e) ==
    /\ CallsAddAsset(e)
    /\ ~StartsWithData(e.ref)
    /\ URLResolve(e.ref, BASE_URL) # Invalid

\* every asset attribute of the document holds a local path, every other
\* attribute its original value
AllRewritten ==
    /\ Len(doc) = Len(RemoveBadge(page))
    /\ \A k \in 1..Len(doc) :
         LET e == RemoveBadge(page)[k]
         IN IF IsAssetElement(e)
            THEN /\ Len(doc[k].ref) = 2
                 /\ doc[k].ref[1] \in {"./", "./assets/"}
                 /\ doc[k].ref[2] = Basename(Pathname(URLResolve(e.ref, BASE_URL)))
            ELSE doc[k].ref = e.ref

\* C15: when the first asset fetch is issued the walks are over and every
\* asset attribute holds its local path; no step after that, whatever a fetch
\* answers, changes the document; the index.html written is the document
\* with those attributes.
C15_RewriteBeforeFetch ==
    /\ [](fetchLog # <<>> => (todo = <<>> /\ pc # "walk" /\ AllRewritten))
    /\ [][(fetchLog # <<>> /\ run' = run) => doc' = doc]_vars
    /\ [](pc = "done" =>
            (AllRewritten /\ disk[IndexPath].text = [k \in 1..Len(doc) |-> doc[k].ref]))

C15_Witness ==
    /\ pc = "done"
    /\ \E i \in 1..Len(fetchLog) :
         /\ fetchLog[i].via = "html"
         /\ net[fetchLog[i].url] = "fail"
         /\ \E k \in 1..Len(doc) :
              /\ URLResolve(RemoveBadge(page)[k].ref, BASE_URL) = fetchLog[i].url
              /\ doc[k].ref = <<"./assets/", fetchLog[i].filepath.name>>
              /\ disk[IndexPath].text[k] = doc[k].ref

\* the downloadFile calls of the download loop, in the order issued
HtmlFetches == SelectSeq(fetchLog, LAMBDA e : e.via = "html")

\* the asset elements of the fetched document that a walk of kind selects,
\* in document order
Discovered(kind) ==
    SelectSeq(RemoveBadge(page), LAMBDA e : Selected(e, kind) /\ IsAssetElement(e))

\* the asset elements in discovery order: links, scripts, images, meta tags
DiscoveryOrder ==
    Discovered("link") \o Discovered("script") \o Discovered("img") \o Discovered("meta")

\* C16: at most one fetch is in flight at any moment, a fetch is only issued
\* when none is in flight, the queue holds the assets in discovery order
\* (links in document order, then scripts, images, meta tags), and the
\* download loop fetches the queue in that order.
C16_SequentialInOrder ==
    /\ [](Cardinality(inflight) <= 1)
    /\ [][(fetchLog' # fetchLog /\ run' = run) => inflight = {}]_vars
    /\ [](fetchLog # <<>> =>
            /\ Len(assetsToDownload) = Len(DiscoveryOrder)
            /\ \A k \in 1..Len(assetsToDownload) :
                 assetsToDownload[k].originalUrl = DiscoveryOrder[k].ref)
    /\ [](/\ Len(HtmlFetches) <= Len(assetsToDownload)
          /\ \A k \in 1..Len(HtmlFetches) :
               /\ HtmlFetches[k].url = assetsToDownload[k].url
               /\ HtmlFetches[k].filepath = assetsToDownload[k].filepath)

C16_Witness ==
    /\ Len(HtmlFetches) = 2
    /\ inflight = {}
    /\ page[1].tag = "img"
    /\ page[2].tag = "link"
    /\ HtmlFetches[1].url = StyleUrl
    /\ HtmlFetches[2].url = LogoUrl
    /\ \E i \in 1..Len(fetchLog) : fetchLog[i].via = "css"

\* main() is past the download loop
PastDownloadLoop == pc \in {"jsLoop", "jsFile", "awaitJs", "write", "done"}

\* C17: a downloadFile call that fails returns to its loop, which goes on
\* with the next queue entry (the next url() of the stylesheet); nothing ends
\* the run there, and once the download loop is over every queued asset has
\* been attempted.
C17_FailedFetchContinues ==
    /\ [][(pc = "awaitAsset" /\ run' = run /\ net'[assetsToDownload[idx].url] = "fail") =>
             (pc' = "download" /\ idx' = idx + 1 /\ exitCode' = exitCode)]_vars
    /\ [][(pc = "awaitCss" /\ run' = run) =>
             (pc' = "css" /\ cssIdx' = cssIdx + 1 /\ cssUrls' = cssUrls
                /\ idx' = idx /\ exitCode' = exitCode)]_vars
    /\ [](pc = "css" => cssIdx <= Len(cssUrls) + 1)
    /\ [](PastDownloadLoop => Len(HtmlFetches) = Len(assetsToDownload))

C17_Witness ==
    /\ PastDownloadLoop
    /\ \E i, j, k \in 1..Len(fetchLog) :
         /\ i < j /\ j < k
         /\ fetchLog[i].via = "css"
         /\ net[fetchLog[i].url] = "fail"
         /\ fetchLog[j].via = "css"
         /\ fetchLog[k].via = "html"
         /\ fetchLog[k].url # fetchLog[i].url

\* the downloadFile calls of processCss, in the order issued
CssFetches == SelectSeq(fetchLog, LAMBDA e : e.via = "css")

\* the queue positions of the stylesheets whose fetch has succeeded
FetchedSheets ==
    { k \in 1..Len(HtmlFetches) :
        /\ assetsToDownload[k].isCss
        /\ assetsToDownload[k].url \in DOMAIN net
        /\ net[assetsToDownload[k].url] = "ok" }

\* the url( ) values of the stylesheet at sheetUrl that start with neither
\* data: nor http, resolved against sheetUrl
RelativeUrlsOf(sheetUrl) ==
    LET rel == SelectSeq(RemoteText(sheetUrl),
                         LAMBDA u : u[1] \notin ({"data:", "https://"} \cup Origins))
    IN [j \in 1..Len(rel) |-> URLResolve(rel[j], sheetUrl)]

\* C18: processCss runs on a queued asset exactly when the asset is flagged
\* stylesheet and its fetch succeeded; of a scanned stylesheet the url()
\* values starting with data: or http are never fetched and all the others
\* are, in order, resolved against the stylesheet's URL.
C18_CssRecursionAndFilter ==
    /\ [][(pc = "awaitAsset" /\ run' = run) =>
             (pc' = "css" <=> (/\ assetsToDownload[idx].isCss
                               /\ net'[assetsToDownload[idx].url] = "ok"))]_vars
    /\ [](pc \in {"css", "awaitCss"} =>
             (/\ assetsToDownload[idx].isCss
              /\ net[assetsToDownload[idx].url] = "ok"
              /\ assetsToDownload[idx].originalUrl = <<"/", "assets/", "style.css">>))
    /\ [](\A i \in 1..Len(CssFetches) : CssFetches[i].url[1] # "data:")
    /\ [](PastDownloadLoop =>
             IF FetchedSheets = {}
             THEN CssFetches = <<>>
             ELSE /\ Len(CssFetches) = 4
                  /\ \A j \in 1..Len(CssFetches) :
                       CssFetches[j].url = RelativeUrlsOf(StyleUrl)[j])

C18_Witness ==
    /\ PastDownloadLoop
    /\ FetchedSheets # {}
    /\ Len(CssFetches) = 4
    /\ CssFetches[4].url = <<BaseOrigin, "assets/", "bg.png">>
    /\ \E k \in 1..Len(assetsToDownload) : ~assetsToDownload[k].isCss

\* C19: in one run the local file of a stylesheet or binary asset is written
\* at most once, and at the end of a completed run it holds the bytes that
\* the fetch of its URL returned (a stylesheet as served, url() values
\* untouched).
C19_WriteOnce ==
    /\ \A i, j \in 1..Len(writeLog) :
         (/\ writeLog[i] = writeLog[j]
          /\ ~EndsWithJs(writeLog[i].name)
          /\ writeLog[i] # IndexPath) => i = j
    /\ pc = "done" =>
         \A i \in 1..Len(fetchLog) :
             (/\ ~EndsWithJs(fetchLog[i].filepath.name)
              /\ net[fetchLog[i].url] = "ok") =>
                 disk[fetchLog[i].filepath] = Body(fetchLog[i].url)

\* the number of writes of index.html in this run
IndexWrites == Cardinality({i \in 1..Len(writeLog) : writeLog[i] = IndexPath})

\* the JS pass starts after the last fetch of the download loop and of
\* processCss, the audit after the JS pass, and index.html is written at most
\* once, as the last write, after the audit
PassOrder ==
    /\ PastDownloadLoop =>
         /\ Len(HtmlFetches) = Len(assetsToDownload)
         /\ pc # "awaitJs" => inflight = {}
    /\ \A i, j \in 1..Len(fetchLog) :
         (i < j /\ fetchLog[i].via = "js") => fetchLog[j].via = "js"
    /\ pc \in {"write", "done"} => (jsTodo = {} /\ inflight = {})
    /\ IndexWrites <= 1
    /\ IndexWrites = 1 => (pc = "done" /\ writeLog[Len(writeLog)] = IndexPath)

\* C20: the JS pass starts only after every asset and CSS sub-asset fetch has
\* completed, the audit only after the JS pass, and a run (whose entry
\* document was fetched) writes index.html exactly once, as its last write,
\* after the audit.
C20_PassOrderIndexOnce ==
    /\ PassOrder
    /\ (pc \in Terminal /\ EntryFetched) => IndexWrites = 1

\* the phase of the orchestrator that position p of main() belongs to, with
\* the stylesheet scan counted as part of the download loop that calls it
PhaseOf(p) ==
    CASE p \in {"start", "awaitRoot"} -> 1
      [] p = "walk" -> 2
      [] p \in {"download", "awaitAsset", "css", "awaitCss"} -> 3
      [] p \in {"jsLoop", "jsFile", "awaitJs"} -> 4
      [] p = "write" -> 5
      [] p \in Terminal -> 6

\* within a run main() never goes back to an earlier phase, the walks are
\* over when the download loop starts, and the fetches of the JS pass come
\* after all fetches of the download loop
PhasesInOrder ==
    /\ [][run' = run => PhaseOf(pc') >= PhaseOf(pc)]_vars
    /\ [](PhaseOf(pc) \in 3..5 => todo = <<>>)
    /\ [](\A i, j \in 1..Len(fetchLog) :
            (i < j /\ fetchLog[i].via = "js") => fetchLog[j].via = "js")

AwaitingDownload == pc \in {"awaitAsset", "awaitCss", "awaitJs"}

\* C22: downloadFile writes nothing when it issues the GET; when the GET
\* fails the disk is left exactly as it was (destination absent or holding
\* what was there) and the caller gets null (a stylesheet is then not
\* scanned); when the GET returns bytes, exactly the destination is written,
\* with those bytes.
C22_DownloadFileFrame ==
    /\ [][(fetchLog' # fetchLog /\ run' = run) =>
             (disk' = disk /\ writeLog' = writeLog)]_vars
    /\ [][(AwaitingDownload /\ run' = run) =>
             LET e == fetchLog[Len(fetchLog)]
             IN IF net'[e.url] = "fail"
                THEN /\ disk' = disk
                     /\ writeLog' = writeLog
                     /\ pc = "awaitAsset" => pc' = "download"
                ELSE /\ DOMAIN disk' = DOMAIN disk \cup {e.filepath}
                     /\ disk'[e.filepath] = Body(e.url)
                     /\ \A p \in DOMAIN disk : p # e.filepath => disk'[p] = disk[p]
                     /\ writeLog' = Append(writeLog, e.filepath)]_vars

C22_Witness ==
    /\ fetchLog # <<>>
    /\ inflight = {}
    /\ ~AwaitingDownload
    /\ LET e == fetchLog[Len(fetchLog)]
       IN /\ net[e.url] = "fail"
          /\ e.existed
          /\ disk[e.filepath] = StaleBytes
          /\ writeLog = <<>>

\* the fetch logged at position i of fetchLog has returned bytes
FetchedOk(i) ==
    /\ fetchLog[i].url \in DOMAIN net
    /\ net[fetchLog[i].url] = "ok"
    /\ (i = Len(fetchLog) => inflight = {})

\* C23: in one run two different absolute URLs that were both fetched
\* successfully are never written to the same local file, and at the end of
\* a completed run the file that a rewritten attribute designates holds what
\* was fetched from the URL the attribute originally pointed to.
C23_NoSilentOverwrite ==
    /\ \A i, j \in 1..Len(fetchLog) :
         (FetchedOk(i) /\ FetchedOk(j) /\ fetchLog[i].url # fetchLog[j].url) =>
             fetchLog[i].filepath # fetchLog[j].filepath
    /\ pc = "done" =>
         \A k \in 1..Len(doc) :
             LET e == RemoveBadge(page)[k]
                 url == URLResolve(e.ref, BASE_URL)
             IN (IsAssetElement(e) /\ net[url] = "ok") =>
                    /\ RefTarget(doc[k].ref) \in DOMAIN disk
                    /\ disk[RefTarget(doc[k].ref)].from = url

====
